---- MODULE Spec2Model ----
(***************************************************************************)
(* Model of src/src/sessionization.py: the SessionParser engine and the    *)
(* User (session) entity.                                                  *)
(*                                                                         *)
(* Time is counted in whole seconds; a datetime is the integer             *)
(* day * SecondsPerDay + second-of-day.  A raw line is the list of its     *)
(* columns (the result of line.split(delimeter)); a column carries the     *)
(* kind of text it holds.                                                  *)
(***************************************************************************)
EXTENDS Integers, Sequences, FiniteSets, TLC

\* ------------------------------------------------------------------------
\* Bounds of the model
\* ------------------------------------------------------------------------
\* lines of a run of Spec, of SpecClean and of SpecBatch
MaxLines == 3
MaxClean == 4
MaxLog == 3
\* lines of one parse_requests call of SpecBatch
MaxBatch == 2
\* largest threshold and largest second of the day of a line
MaxThreshold == 1
MaxSec == 2

\* ------------------------------------------------------------------------
\* Program constants
\* ------------------------------------------------------------------------
\* datetime.timedelta keeps days and seconds apart; .seconds is in 0..86399
SecondsPerDay == 86400
\* self.current_time = None
NoTime == -1

\* ------------------------------------------------------------------------
\* Raw input: columns and lines
\* ------------------------------------------------------------------------
IpCol(parts) == [k |-> "ip", parts |-> parts, n |-> 0]
DateCol(d) == [k |-> "date", parts |-> <<>>, n |-> d]
TimeCol(s) == [k |-> "time", parts |-> <<>>, n |-> s]

\* "1.2.3.4", "5.6.7.8": four dot-separated components of one character
IpA == IpCol(<< <<1>>, <<2>>, <<3>>, <<4>> >>)
IpB == IpCol(<< <<5>>, <<6>>, <<7>>, <<8>> >>)
\* "1.2.3": three components
IpShort == IpCol(<< <<1>>, <<2>>, <<3>> >>)

\* a date text that does not match %Y-%m-%d
BadDate == DateCol(-1)

\* the day of the first line and the day after it
Days == {0, 1}

GoodStamps == {<<DateCol(d), TimeCol(s)>> : d \in Days, s \in 0..MaxSec}

Lines ==
  {<<ip, st[1], st[2]>> : ip \in {IpA, IpB, IpShort}, st \in GoodStamps}
  \cup {<<IpA, BadDate, TimeCol(0)>>, <<IpA>>}

\* ------------------------------------------------------------------------
\* datetime arithmetic
\* ------------------------------------------------------------------------
\* timedelta(...).seconds: the seconds component, days dropped
TdSeconds(d) == d % SecondsPerDay

\* datetime.strptime(date + ' ' + time, '%Y-%m-%d %H:%M:%S') succeeds
StrptimeOk(date, time) ==
  /\ date.k = "date" /\ date.n >= 0
  /\ time.k = "time" /\ time.n >= 0 /\ time.n < SecondsPerDay

Strptime(date, time) == date.n * SecondsPerDay + time.n

\* datetime.strftime(fmt): <<date, time of day>>
Strftime(t) == <<t \div SecondsPerDay, t % SecondsPerDay>>

\* ------------------------------------------------------------------------
\* User (one session)
\* ------------------------------------------------------------------------
\* the ip check of User.__init__
ValidIp(ip) ==
  /\ ip.k = "ip"
  /\ Len(ip.parts) = 4
  /\ \A i \in 1..Len(ip.parts) : Len(ip.parts[i]) >= 1 /\ Len(ip.parts[i]) <= 3

\* User.__init__ when it does not raise
User(lid, ip, start_time) ==
  [lid |-> lid, ip |-> ip, start_time |-> start_time,
   latest_time |-> start_time, num_docs |-> 1]

\* an update that accepts every time
UpdateRaisesMut(u, time) == FALSE

\* User.update raises
UpdateRaises(u, time) == time < u.start_time

\* User.update when it does not raise
Update(u, time) == [u EXCEPT !.latest_time = time, !.num_docs = @ + 1]

session_length(u) == 1 + TdSeconds(u.latest_time - u.start_time)

session_info(u) ==
  [ip |-> u.ip, start |-> Strftime(u.start_time),
   latest |-> Strftime(u.latest_time),
   length |-> session_length(u), num_docs |-> u.num_docs]

\* ------------------------------------------------------------------------
\* dictionaries
\* ------------------------------------------------------------------------
EmptyDict == [k \in {} |-> k]
DictPut(d, key, val) ==
  [k \in DOMAIN d \cup {key} |-> IF k = key THEN val ELSE d[k]]
DictPop(d, key) == [k \in DOMAIN d \ {key} |-> d[k]]

\* every order in which the keys of a dictionary can be iterated
KeyOrders(S) ==
  IF S = {} THEN {<<>>}
  ELSE {f \in [1..Cardinality(S) -> S] :
          \A i, j \in 1..Cardinality(S) : i # j => f[i] # f[j]}

\* ------------------------------------------------------------------------
\* SessionParser
\* ------------------------------------------------------------------------
\* list.sort(key=lambda x: (x.start_time, x.lid))
KeyLess(u, v) ==
  \/ u.start_time < v.start_time
  \/ u.start_time = v.start_time /\ u.lid < v.lid

RECURSIVE Insert(_, _)
Insert(sorted, u) ==
  IF sorted = <<>> THEN <<u>>
  ELSE IF KeyLess(u, Head(sorted)) THEN <<u>> \o sorted
  ELSE <<Head(sorted)>> \o Insert(Tail(sorted), u)

\* a sort that leaves the list as it is
SortSessionsMut(sessions) == sessions

RECURSIVE SortSessions(_)
SortSessions(sessions) ==
  IF sessions = <<>> THEN <<>>
  ELSE Insert(SortSessions(SubSeq(sessions, 1, Len(sessions) - 1)),
              sessions[Len(sessions)])

RECURSIVE InfoOf(_)
InfoOf(sessions) ==
  IF sessions = <<>> THEN <<>>
  ELSE <<session_info(Head(sessions))>> \o InfoOf(Tail(sessions))

\* SessionParser._write_session_info.  written and batches record the
\* User objects handed to output.write and the size of each call's batch.
WriteSessionInfo(s, sessions) ==
  LET sorted == SortSessions(sessions)
  IN [s EXCEPT !.output = @ \o InfoOf(sorted),
               !.written = @ \o sorted,
               !.batches = Append(@, Len(sorted))]

\* an expiry test with >= in place of >
ExpiredMut(s) ==
  {ip \in DOMAIN s.active_users :
     TdSeconds(s.current_time - s.active_users[ip].latest_time)
       >= s.inactivity_period}

\* the sessions the expiry test of _detect_terminated_sessions selects
Expired(s) ==
  {ip \in DOMAIN s.active_users :
     TdSeconds(s.current_time - s.active_users[ip].latest_time)
       > s.inactivity_period}

RECURSIVE PopAll(_, _)
PopAll(d, keys) ==
  IF keys = {} THEN d
  ELSE LET k == CHOOSE x \in keys : TRUE
       IN PopAll(DictPop(d, k), keys \ {k})

\* the entries of order that are in keys, in the order of order
RECURSIVE UsersInOrder(_, _, _)
UsersInOrder(d, order, keys) ==
  IF order = <<>> THEN <<>>
  ELSE (IF Head(order) \in keys THEN <<d[Head(order)]>> ELSE <<>>)
       \o UsersInOrder(d, Tail(order), keys)

\* SessionParser._detect_terminated_sessions: the set of outcomes, each
\* with whether the call raised.  The loop pops from the dictionary whose
\* keys() it iterates: where keys() is a list (Python 2) the loop visits
\* every key; where keys() is a view (Python 3) the step after the first
\* pop raises RuntimeError, before _write_session_info is reached.
DetectTerminatedSessions(python, s) ==
  IF python = 2
  THEN {[raised |-> FALSE,
         sp |-> WriteSessionInfo(
                  [s EXCEPT !.active_users = PopAll(@, Expired(s))],
                  UsersInOrder(s.active_users, order, Expired(s)))] :
          order \in KeyOrders(DOMAIN s.active_users)}
  ELSE IF Expired(s) = {}
       THEN {[raised |-> FALSE, sp |-> WriteSessionInfo(s, <<>>)]}
       ELSE {[raised |-> TRUE,
              sp |-> [s EXCEPT !.active_users = DictPop(@, ip)]] :
               ip \in Expired(s)}

\* an increment placed inside the try block: a skipped line is not counted
SkipLineNoCount(s) == [s EXCEPT !.warned = Append(@, s.line_id)]

\* an except branch that raises no warning
SkipLineMut(s) == [s EXCEPT !.line_id = @ + 1]

\* the except branch and the increment of parse_requests
SkipLine(s) ==
  [s EXCEPT !.warned = Append(@, s.line_id), !.line_id = @ + 1]

\* lines 116-122 of parse_requests followed by the increment
StoreOrUpdate(s, uip) ==
  IF uip \in DOMAIN s.active_users
  THEN IF UpdateRaises(s.active_users[uip], s.current_time)
       THEN SkipLine(s)
       ELSE [s EXCEPT !.active_users[uip] = Update(@, s.current_time),
                      !.last_seen = DictPut(@, uip, s.current_time),
                      !.line_id = @ + 1]
  ELSE IF ~ValidIp(uip)
       THEN SkipLine(s)
       ELSE [s EXCEPT !.active_users =
                         DictPut(@, uip, User(s.line_id, uip, s.current_time)),
                      !.created = @ \cup {s.line_id},
                      !.last_seen = DictPut(@, uip, s.current_time),
                      !.line_id = @ + 1]

\* one iteration of the loop of parse_requests: the set of outcomes
ParseLine(python, s, line) ==
  IF ~s.fields.set
  THEN {SkipLine(s)}
  ELSE IF \E key \in {"ip", "date", "time"} : s.fields.map[key] >= Len(line)
  THEN {SkipLine(s)}
  ELSE
    LET uip == line[s.fields.map["ip"] + 1]
        date == line[s.fields.map["date"] + 1]
        time == line[s.fields.map["time"] + 1]
    IN IF ~StrptimeOk(date, time)
       THEN {SkipLine(s)}
       ELSE
         LET dtime == Strptime(date, time)
             delta == IF s.current_time = NoTime THEN 0
                      ELSE dtime - s.current_time
             s1 == [s EXCEPT !.current_time = dtime,
                             !.in_order = @ /\ (s.current_time = NoTime
                                                  \/ dtime >= s.current_time)]
             detected == IF TdSeconds(delta) > 0
                         THEN DetectTerminatedSessions(python, s1)
                         ELSE {[raised |-> FALSE, sp |-> s1]}
         IN {IF r.raised THEN SkipLine(r.sp) ELSE StoreOrUpdate(r.sp, uip) :
               r \in detected}

\* the for loop of parse_requests over the lines it is given
RECURSIVE ParseLoop(_, _, _)
ParseLoop(python, s, lines) ==
  IF lines = <<>> THEN {s}
  ELSE UNION {ParseLoop(python, s1, Tail(lines)) :
                s1 \in ParseLine(python, s, Head(lines))}

\* a parse_requests that starts each call with no current time
ParseRequestsMut(python, s, lines) ==
  ParseLoop(python, [s EXCEPT !.current_time = NoTime], lines)

\* SessionParser.parse_requests: the set of outcomes of one call.  The
\* call keeps nothing of its own: it starts from the attributes the
\* previous call left.
ParseRequests(python, s, lines) == ParseLoop(python, s, lines)

\* SessionParser.terminate_remaining_sessions: the set of outcomes
TerminateRemainingSessions(s) ==
  {WriteSessionInfo([s EXCEPT !.active_users = EmptyDict],
                    UsersInOrder(s.active_users, order, DOMAIN s.active_users)) :
     order \in KeyOrders(DOMAIN s.active_users)}

\* ------------------------------------------------------------------------
\* Construction
\* ------------------------------------------------------------------------
IntArg(n) == [int |-> TRUE, v |-> n]
\* a value int() does not convert, such as 'abc' or None
TextArg == [int |-> FALSE, v |-> 0]

DefaultFields == [ip |-> 0, date |-> 1, time |-> 2]

\* the fields argument: None, or a dictionary from keys to values
FieldsNone == [given |-> FALSE, dict |-> EmptyDict]
FieldsDict(d) == [given |-> TRUE, dict |-> d]
FieldsExplicit ==
  FieldsDict([ip |-> IntArg(0), date |-> IntArg(1), time |-> IntArg(2)])
FieldsMissingKey == FieldsDict([ip |-> IntArg(0), date |-> IntArg(1)])
FieldsNonInt ==
  FieldsDict([ip |-> IntArg(0), date |-> IntArg(1), time |-> TextArg])

ThresholdArgs == {IntArg(n) : n \in -1..MaxThreshold} \cup {TextArg}
FieldsArgs == {FieldsNone, FieldsExplicit, FieldsMissingKey, FieldsNonInt}

\* int(inactivity_period) raises
ThresholdRaises(arg) == ~arg.int

\* the check of the fields argument raises
FieldsRaise(arg) ==
  /\ arg.given
  /\ \/ \E key \in {"ip", "date", "time"} : key \notin DOMAIN arg.dict
     \/ \E key \in {"ip", "date", "time"} : ~arg.dict[key].int

\* the attributes after SessionParser.__init__ returns.  self.fields is
\* assigned only in the branch where the argument is None.  The fields
\* after output record the run and are not attributes: warned, the line
\* ids of the warnings raised; written and batches, the User objects
\* written and the size of each batch; created, the lid of every session
\* stored; last_seen, the time of each client's latest accepted record;
\* in_order, whether the timestamps parsed so far never went back.
NewParser(threshold, fieldsArg) ==
  [active_users |-> EmptyDict,
   current_time |-> NoTime,
   line_id |-> 0,
   inactivity_period |-> threshold.v,
   fields |-> [set |-> ~fieldsArg.given, map |-> DefaultFields],
   output |-> <<>>,
   warned |-> <<>>,
   written |-> <<>>,
   batches |-> <<>>,
   created |-> {},
   last_seen |-> EmptyDict,
   in_order |-> TRUE]

\* no SessionParser object exists
NoParser == NewParser(IntArg(0), FieldsNone)

\* ------------------------------------------------------------------------
\* State machine: the usage of the class docstring and of __main__ with a
\* line buffer of one line
\* ------------------------------------------------------------------------
\* pc: where the caller stands; python: the major version of the
\* interpreter; sp: the SessionParser object; args: the arguments given to
\* the constructor; requests: the argument of the latest parse_requests
\* call; log: every line handed to parse_requests so far (recorded by
\* SpecBatch only).
VARIABLES pc, python, sp, args, requests, log

vars == <<pc, python, sp, args, requests, log>>

NoArgs == [threshold |-> IntArg(0), fields |-> FieldsNone]

Init ==
  /\ pc = "new"
  /\ python \in {2, 3}
  /\ sp = NoParser
  /\ args = NoArgs
  /\ requests = <<>>
  /\ log = <<>>

Construct(threshold, fieldsArg) ==
  /\ pc = "new"
  /\ args' = [threshold |-> threshold, fields |-> fieldsArg]
  /\ IF ThresholdRaises(threshold) \/ FieldsRaise(fieldsArg)
     THEN pc' = "failed" /\ sp' = sp
     ELSE pc' = "ready" /\ sp' = NewParser(threshold, fieldsArg)
  /\ UNCHANGED <<python, requests, log>>

CallParseRequests(batch, limit) ==
  /\ pc = "ready"
  /\ sp.line_id + Len(batch) <= limit
  /\ sp' \in ParseRequests(python, sp, batch)
  /\ requests' = batch
  /\ UNCHANGED <<pc, python, args, log>>

CallTerminateRemainingSessions ==
  /\ pc = "ready"
  /\ sp' \in TerminateRemainingSessions(sp)
  /\ pc' = "done"
  /\ UNCHANGED <<python, args, requests, log>>

Next ==
  \/ \E t \in ThresholdArgs, f \in FieldsArgs : Construct(t, f)
  \/ \E line \in Lines : CallParseRequests(<<line>>, MaxLines)
  \/ CallTerminateRemainingSessions

Spec == Init /\ [][Next]_vars

\* ------------------------------------------------------------------------
\* The same state machine on longer logs of well-formed lines of one day
\* ------------------------------------------------------------------------
CleanLines ==
  {<<ip, DateCol(0), TimeCol(s)>> : ip \in {IpA, IpB}, s \in 0..MaxSec}

NextClean ==
  \/ \E t \in ThresholdArgs : Construct(t, FieldsNone)
  \/ \E line \in CleanLines : CallParseRequests(<<line>>, MaxClean)
  \/ CallTerminateRemainingSessions

SpecClean == Init /\ [][NextClean]_vars

\* ------------------------------------------------------------------------
\* State machine of __main__ with any line buffer, the lines read so far
\* recorded in log
\* ------------------------------------------------------------------------
BatchLines ==
  {<<IpA, DateCol(0), TimeCol(s)>> : s \in 0..MaxSec}
  \cup {<<IpB, DateCol(0), TimeCol(0)>>,
        <<IpShort, DateCol(0), TimeCol(MaxSec)>>}

Batches == UNION {[1..n -> BatchLines] : n \in 1..MaxBatch}

ReadAndParse(batch) ==
  /\ pc = "ready"
  /\ Len(log) + Len(batch) <= MaxLog
  /\ sp' \in ParseRequests(python, sp, batch)
  /\ requests' = batch
  /\ log' = log \o batch
  /\ UNCHANGED <<pc, python, args>>

NextBatch ==
  \/ \E t \in ThresholdArgs : Construct(t, FieldsNone)
  \/ \E batch \in Batches : ReadAndParse(batch)
  \/ CallTerminateRemainingSessions

SpecBatch == Init /\ [][NextBatch]_vars

\* ------------------------------------------------------------------------
\* State machine of __main__ with a line buffer of one line on logs made
\* of the lines 1.2.3.4 at 00:00:00, 1.2.3.4 at 00:00:01, 5.6.7.8 at
\* 00:00:01, 1.2.3.4 at 00:00:05 of one day, in any order, with any
\* threshold up to 2
\* ------------------------------------------------------------------------
ExampleLines ==
  << <<IpA, DateCol(0), TimeCol(0)>>, <<IpA, DateCol(0), TimeCol(1)>>,
     <<IpB, DateCol(0), TimeCol(1)>>, <<IpA, DateCol(0), TimeCol(5)>> >>

ExampleThreshold == IntArg(2)

ReadLine(line) ==
  /\ pc = "ready"
  /\ Len(log) < Len(ExampleLines)
  /\ sp' \in ParseRequests(python, sp, <<line>>)
  /\ requests' = <<line>>
  /\ log' = Append(log, line)
  /\ UNCHANGED <<pc, python, args>>

NextExample ==
  \/ \E t \in ThresholdArgs \cup {ExampleThreshold} : Construct(t, FieldsNone)
  \/ \E i \in 1..Len(ExampleLines) : ReadLine(ExampleLines[i])
  \/ CallTerminateRemainingSessions

SpecExample == Init /\ [][NextExample]_vars

\* ------------------------------------------------------------------------
\* Properties
\* ------------------------------------------------------------------------
Constructed == pc \in {"ready", "done"}

\* the parser was built with a non-negative threshold and the timestamps
\* it has parsed so far are in non-decreasing order
ValidThreshold == sp.inactivity_period >= 0
Chronological == ValidThreshold /\ sp.in_order

ActiveSessions == {sp.active_users[ip] : ip \in DOMAIN sp.active_users}
WrittenSessions == {sp.written[i] : i \in 1..Len(sp.written)}

RECURSIVE SumDocs(_)
SumDocs(records) ==
  IF records = <<>> THEN 0
  ELSE Head(records).num_docs + SumDocs(Tail(records))

\* the lines for which no warning was raised
AcceptedLines == sp.line_id - Len(sp.warned)

\* C8: every session that is active or has been written has
\* latest_time >= start_time and num_docs >= 1, whatever the input.
SessionInvariant ==
  \A u \in ActiveSessions \cup WrittenSessions :
    u.latest_time >= u.start_time /\ u.num_docs >= 1

\* an update earlier than the start of an active session has been refused
SessionInvariantWitness ==
  /\ pc = "ready"
  /\ Len(sp.warned) > 0
  /\ \E u \in ActiveSessions :
       sp.current_time # NoTime /\ sp.current_time < u.start_time

\* C9 (as stated): the length written for a session is 1 plus the whole
\* number of seconds between its start_time and its latest_time.
DurationIsTotalSeconds ==
  Chronological => \A i \in 1..Len(sp.output) :
    /\ sp.output[i].length
         = 1 + (sp.written[i].latest_time - sp.written[i].start_time)
    /\ sp.output[i].length >= 1

\* C10 (as stated): no parser exists whose threshold argument is not a
\* non-negative integer or whose fields argument lacks a key or maps one
\* to a non-integer.
ConstructionRejectsBadConfiguration ==
  Constructed =>
    /\ args.threshold.int /\ args.threshold.v >= 0
    /\ ~FieldsRaise(args.fields)

\* C2 (as stated): after the final flush the num_docs written sum to the
\* number of lines that were not skipped.
NoDataLoss ==
  pc = "done" /\ Chronological => SumDocs(sp.output) = AcceptedLines

\* C7 (as stated): after the final flush no session is active and every
\* session created has been written exactly once.
FlushCompleteness ==
  pc = "done" /\ Chronological =>
    /\ DOMAIN sp.active_users = {}
    /\ {u.lid : u \in WrittenSessions} = sp.created
    /\ \A i, j \in 1..Len(sp.written) :
         sp.written[i].lid = sp.written[j].lid => i = j

\* the sessions written by the step, in the order written
NewlyWritten == {sp'.written[i] : i \in (Len(sp.written) + 1)..Len(sp'.written)}

\* the step is one parse_requests call on one line
OneLineStep ==
  /\ pc = "ready" /\ pc' = "ready"
  /\ sp'.line_id = sp.line_id + 1
  /\ Len(requests') = 1

\* C5 (as stated): a skipped line leaves active_users, current_time and
\* the output as they were; only the line counter advances.
SkipLeavesStateUnchanged ==
  [][OneLineStep /\ ValidThreshold /\ Len(sp'.warned) = Len(sp.warned) + 1
       => /\ sp'.active_users = sp.active_users
          /\ sp'.current_time = sp.current_time
          /\ sp'.output = sp.output]_vars

\* C1 (as stated): an accepted record of a client exactly T seconds after
\* that client's previous accepted record updates the same session and
\* writes no session of the client; one exactly T+1 seconds after it
\* leaves the previous session written and starts a session of one
\* document.
ThresholdBoundary ==
  [][OneLineStep /\ ValidThreshold /\ sp'.in_order /\ sp'.warned = sp.warned
       => LET line == requests'[1]
              uip == line[1]
              t == Strptime(line[2], line[3])
              T == sp.inactivity_period
          IN uip \in DOMAIN sp.last_seen =>
               /\ t - sp.last_seen[uip] = T =>
                    /\ uip \in DOMAIN sp.active_users
                    /\ sp'.active_users[uip] = Update(sp.active_users[uip], t)
                    /\ \A u \in NewlyWritten : u.ip # uip
               /\ t - sp.last_seen[uip] = T + 1 =>
                    /\ \E i \in 1..Len(sp'.written) :
                         /\ sp'.written[i].ip = uip
                         /\ sp'.written[i].latest_time = sp.last_seen[uip]
                    /\ sp'.active_users[uip] = User(sp.line_id, uip, t)]_vars

\* C3 (as stated): the whole sequence of records written is strictly
\* ascending in (start_time, lid), across eviction batches and the flush
\* (stated here for input in time order of which no line is skipped).
WholeRunOrdered ==
  Chronological /\ sp.warned = <<>> => \A i, j \in 1..Len(sp.written) :
    i < j => KeyLess(sp.written[i], sp.written[j])

RECURSIVE SumTo(_, _)
SumTo(sizes, n) == IF n = 0 THEN 0 ELSE sizes[n] + SumTo(sizes, n - 1)

\* C3 (amended): the records written by one call of the emission routine
\* (one eviction pass, or the flush) are strictly ascending in
\* (start_time, lid); the calls append their batches one after another.
EachBatchOrdered ==
  /\ SumTo(sp.batches, Len(sp.batches)) = Len(sp.written)
  /\ \A b \in 1..Len(sp.batches) :
       \A i, j \in (SumTo(sp.batches, b - 1) + 1)..SumTo(sp.batches, b) :
         i < j => KeyLess(sp.written[i], sp.written[j])

\* a run on lines in time order that wrote a batch of two sessions and,
\* in a later batch, a session that sorts before one written earlier
EachBatchOrderedWitness ==
  /\ pc = "done"
  /\ Chronological
  /\ \E b \in 1..Len(sp.batches) : sp.batches[b] >= 2
  /\ \E i, j \in 1..Len(sp.written) :
       i < j /\ KeyLess(sp.written[j], sp.written[i])

\* ------------------------------------------------------------------------
\* Properties of whole runs (SpecBatch)
\* ------------------------------------------------------------------------
\* the outputs of flushing each of a set of parsers
FlushedOutputs(parsers) ==
  {t.output : t \in UNION {TerminateRemainingSessions(s) : s \in parsers}}

\* the parsers after successive parse_requests calls on batches of the
\* given sizes
RECURSIVE RunBatches(_, _, _, _)
RunBatches(py, parsers, lines, sizes) ==
  IF sizes = <<>> THEN parsers
  ELSE RunBatches(py,
                  UNION {ParseRequests(py, s, SubSeq(lines, 1, Head(sizes))) :
                           s \in parsers},
                  SubSeq(lines, Head(sizes) + 1, Len(lines)),
                  Tail(sizes))

\* every way of cutting n lines into consecutive batches
RECURSIVE Cuts(_)
Cuts(n) ==
  IF n = 0 THEN {<<>>}
  ELSE UNION {{<<k>> \o c : c \in Cuts(n - k)} : k \in 1..n}

FreshParser == NewParser(args.threshold, args.fields)

\* C4: every cut of the lines read so far into batches, followed by one
\* flush, writes the same output as one call on all of them, and the run
\* itself wrote one of these outputs.
BatchInvariance ==
  pc = "done" =>
    LET whole == FlushedOutputs(ParseRequests(python, FreshParser, log))
    IN /\ \A c \in Cuts(Len(log)) :
            FlushedOutputs(RunBatches(python, {FreshParser}, log, c)) = whole
       /\ sp.output \in whole

\* a finished run of at least three lines, cut into more than one call,
\* in which an eviction pass and the flush both wrote a session
BatchInvarianceWitness ==
  /\ pc = "done"
  /\ ValidThreshold
  /\ Len(log) >= 3
  /\ Len(requests) < Len(log)
  /\ Cardinality({b \in 1..Len(sp.batches) : sp.batches[b] > 0}) >= 2

\* the lines of a log that were not skipped (warned holds 0-based ids)
RECURSIVE Excise(_, _, _)
Excise(lines, skipped, id) ==
  IF lines = <<>> THEN <<>>
  ELSE (IF id \in skipped THEN <<>> ELSE <<Head(lines)>>)
       \o Excise(Tail(lines), skipped, id + 1)

\* C6 (as stated): the output of a run is the output of the same input
\* with the skipped lines removed.
ExcisionEquivalence ==
  pc = "done" /\ Chronological =>
    sp.output \in
      FlushedOutputs(
        ParseRequests(python, FreshParser,
          Excise(log, {sp.warned[i] : i \in 1..Len(sp.warned)}, 0)))

\* C13 (as stated): each call of the emission routine writes its batch
\* in ascending (start_time, lid) order whatever order the keys of
\* active_users are iterated in, so every run on the lines read so far
\* writes the same output, the run made among them.
OutputIndependentOfKeyOrder ==
  pc = "done" /\ Chronological =>
    /\ EachBatchOrdered
    /\ FlushedOutputs(ParseRequests(python, FreshParser, log)) = {sp.output}

\* ------------------------------------------------------------------------
\* Properties of the handling of one line
\* ------------------------------------------------------------------------
\* the step is a parse_requests call (the flush leaves pc at "done")
ParseStep == pc = "ready" /\ pc' = "ready"

\* the date and time columns of the line do not parse
BadDateLine(line) == Len(line) >= 3 /\ ~StrptimeOk(line[2], line[3])

\* C11: a line whose date does not parse leaves active_users (keys and
\* every session's start_time, latest_time and num_docs) as it was, raises
\* exactly one warning, and the parser goes on to the next line.
UnparseableDateSkip ==
  [][ParseStep /\ Len(requests') = 1 /\ BadDateLine(requests'[1])
       => /\ sp'.active_users = sp.active_users
          /\ Len(sp'.warned) = Len(sp.warned) + 1
          /\ sp'.line_id = sp.line_id + 1]_vars

\* a line with a bad date has just been skipped while a session is active
UnparseableDateSkipWitness ==
  /\ pc = "ready"
  /\ sp.fields.set
  /\ Len(requests) = 1 /\ BadDateLine(requests[1])
  /\ DOMAIN sp.active_users # {}
  /\ Len(sp.warned) = 1 /\ sp.warned[1] = sp.line_id - 1

\* the step parses one line whose timestamp is read
StampedStep ==
  /\ OneLineStep
  /\ sp.fields.set
  /\ Len(requests'[1]) >= 3
  /\ StrptimeOk(requests'[1][2], requests'[1][3])

\* the timestamp of the line of the step
StepTime == Strptime(requests'[1][2], requests'[1][3])

\* the step runs an eviction pass: line 113 finds delta.seconds > 0
PassRuns ==
  /\ StampedStep
  /\ sp.current_time # NoTime
  /\ TdSeconds(StepTime - sp.current_time) > 0

\* the clients whose session is more than the threshold behind the
\* timestamp of the line of the step, in whole seconds
Overdue ==
  {ip \in DOMAIN sp.active_users :
     StepTime - sp.active_users[ip].latest_time > sp.inactivity_period}

\* C14 (as stated): an eviction pass removes exactly the sessions more
\* than the threshold behind current_time and hands all of them, and only
\* them, to the emission routine as one batch; every other session stays
\* active and as it was (the line's own client apart, which the line then
\* updates); the pass does not raise.
EvictionPassExact ==
  [][PassRuns /\ ValidThreshold /\ sp'.in_order
       => /\ Len(sp'.batches) = Len(sp.batches) + 1
          /\ NewlyWritten = {sp.active_users[ip] : ip \in Overdue}
          /\ \A ip \in DOMAIN sp.active_users \ {requests'[1][1]} :
               IF ip \in Overdue
               THEN ip \notin DOMAIN sp'.active_users
               ELSE /\ ip \in DOMAIN sp'.active_users
                    /\ sp'.active_users[ip] = sp.active_users[ip]]_vars

\* C15 (as stated): after each line no active session is more than the
\* threshold behind current_time, and active_users holds one session per
\* client, filed under that client's key.
ActiveWindow ==
  pc = "ready" /\ Chronological /\ sp.current_time # NoTime =>
    \A ip \in DOMAIN sp.active_users :
      /\ sp.active_users[ip].ip = ip
      /\ sp.current_time - sp.active_users[ip].latest_time
           <= sp.inactivity_period

\* the step ran an eviction pass: within one line only a pass calls the
\* emission routine or removes a key from active_users
PassRan ==
  \/ Len(sp'.batches) > Len(sp.batches)
  \/ \E ip \in DOMAIN sp.active_users : ip \notin DOMAIN sp'.active_users

\* the timestamp of the line of the step is read and is later than the
\* current_time the previous lines left
LaterStamp ==
  StampedStep /\ sp.current_time # NoTime /\ StepTime > sp.current_time

\* C16 (as stated): a line runs an eviction pass exactly when its
\* timestamp is later than the previous current_time; the first line and
\* a line with an equal or an earlier timestamp run no pass and write
\* nothing; a pass sees the sessions as the previous lines left them.
EvictionTrigger ==
  [][OneLineStep /\ ValidThreshold
       => /\ PassRan <=> LaterStamp
          /\ ~LaterStamp => sp'.output = sp.output
          /\ NewlyWritten \subseteq ActiveSessions]_vars

\* C17 (as stated): whatever the order of the timestamps, the latest_time
\* of a session that stays active never decreases from one state to the
\* next.
LatestTimeMonotone ==
  [][ParseStep /\ ValidThreshold
       => \A ip \in DOMAIN sp.active_users \cap DOMAIN sp'.active_users :
            sp'.active_users[ip].lid = sp.active_users[ip].lid
              => sp'.active_users[ip].latest_time
                   >= sp.active_users[ip].latest_time]_vars

\* the parser with the fields attribute a default construction assigns
WithDefaultFields(s) ==
  [s EXCEPT !.fields = NewParser(args.threshold, FieldsNone).fields]

\* C18 (as stated): a parser built with the layout {ip: 0, date: 1,
\* time: 2} given explicitly handles every line as a parser built with
\* the default layout does.
CustomLayoutHonoured ==
  [][ParseStep /\ args.fields = FieldsExplicit
       => WithDefaultFields(sp')
            \in ParseRequests(python, WithDefaultFields(sp), requests')]_vars

\* C20: on lines in time order, the sessions of one client are written
\* in the order of their times, the later one starting more than the
\* threshold after the latest_time of the earlier one (so their intervals
\* do not overlap); the same holds of the client's active session against
\* those written.
SessionSeparation ==
  Chronological =>
    /\ \A i, j \in 1..Len(sp.written) :
         i < j /\ sp.written[i].ip = sp.written[j].ip =>
           /\ sp.written[i].start_time <= sp.written[i].latest_time
           /\ sp.written[i].latest_time < sp.written[j].start_time
           /\ sp.written[j].start_time - sp.written[i].latest_time
                > sp.inactivity_period
    /\ \A i \in 1..Len(sp.written) : \A u \in ActiveSessions :
         sp.written[i].ip = u.ip =>
           u.start_time - sp.written[i].latest_time > sp.inactivity_period

\* a finished run on lines in time order that wrote two sessions of one
\* client
SessionSeparationWitness ==
  /\ pc = "done"
  /\ Chronological
  /\ \E i, j \in 1..Len(sp.written) :
       i < j /\ sp.written[i].ip = sp.written[j].ip

\* ------------------------------------------------------------------------
\* The line counter and the number a warning carries (SpecBatch)
\* ------------------------------------------------------------------------
\* the numbers carried by the warnings the step raised, in order
NewWarnings == SubSeq(sp'.warned, Len(sp.warned) + 1, Len(sp'.warned))

\* the step counts every line of the call once, and the warnings it
\* raised are for different lines of the call, numbered from base
CountsAndNumbers(base) ==
  /\ sp.line_id = Len(log)
  /\ sp'.line_id = Len(log')
  /\ \A i \in 1..Len(NewWarnings) :
       /\ NewWarnings[i] - base \in (Len(log) + 1)..Len(log')
       /\ \A j \in 1..Len(NewWarnings) :
            i < j => NewWarnings[i] < NewWarnings[j]

\* C19 (as stated): the counter is incremented once for every line,
\* accepted or skipped, and the warning for the k-th line of the stream
\* carries k.
DiagnosticOneBased == [][ParseStep => CountsAndNumbers(0)]_vars

\* C19 (amended): the counter is incremented once for every line,
\* accepted or skipped, and the warning for the k-th line of the stream
\* carries k - 1, the value of the counter before the line.
DiagnosticZeroBased == [][ParseStep => CountsAndNumbers(-1)]_vars

\* the second or a later line of the stream has just been skipped, after
\* a line that was accepted
DiagnosticZeroBasedWitness ==
  /\ pc = "ready"
  /\ Len(log) >= 2
  /\ sp.created # {}
  /\ Len(sp.warned) = 1 /\ sp.warned[1] = Len(log) - 1

\* ------------------------------------------------------------------------
\* The run on the four lines in their order with threshold 2 (SpecExample)
\* ------------------------------------------------------------------------
\* the three records: 1.2.3.4 from :00 to :01, 5.6.7.8 at :01, 1.2.3.4 at
\* :05
ExampleRecords ==
  << [ip |-> IpA, start |-> <<0, 0>>, latest |-> <<0, 1>>,
      length |-> 2, num_docs |-> 2],
     [ip |-> IpB, start |-> <<0, 1>>, latest |-> <<0, 1>>,
      length |-> 1, num_docs |-> 1],
     [ip |-> IpA, start |-> <<0, 5>>, latest |-> <<0, 5>>,
      length |-> 1, num_docs |-> 1] >>

\* C12 (as stated): with threshold 2, the four lines followed by the
\* flush write exactly the three records, in this order.
EndToEndExample ==
  pc = "done" /\ args.threshold = ExampleThreshold /\ log = ExampleLines
    => sp.output = ExampleRecords

====
